---- MODULE Spec2Model ----
(***************************************************************************)
(* A model of sessionconductor.py: the SessionConductor profile, the       *)
(* decorator built by get_decorator and the wrapper it puts around a view. *)
(* The code is Python 2 (line 95 adds a list and the result of .keys(),    *)
(* line 66 deletes from the session while walking session.keys()): keys()  *)
(* is a list, a snapshot of the keys.                                      *)
(*                                                                         *)
(* A session key is a sequence of characters, so that startswith('_') is   *)
(* computed on the key.  A list is a sequence, a dict is a function whose  *)
(* DOMAIN is its key set.                                                  *)
(***************************************************************************)
EXTENDS Integers, Sequences, FiniteSets, TLC

\* The session keys of the model: two plain keys and one underscore key.
Keys == { <<"f">>, <<"b">>, <<"_", "c">> }

\* The values a session key holds, and Python's None.
Values == {"v1", "v2"}
None == "None"

\* What an ensure mapping holds for a key: a literal or a callable.
Providers == {"lit", "fn"}

\* At most MaxDecl declarations (list items and ensure entries) over the
\* profile and one decorator's overrides together.
MaxDecl == 2

\* The view performs at most MaxHandlerOps writes or deletes on the session.
MaxHandlerOps == 1

VARIABLES
    self,        \* the SessionConductor: [_save, _destroy, _skip, _ensure]
    dec,         \* the closure of get_decorator: save, destroy, skip, ensured, ensure, keeps
    sess,        \* request.session
    pc,          \* "init", "decorated", "fn", "restore", "returned", "raised"
    to_restore,  \* the wrapper's local to_restore
    exc,         \* the exception that left the wrapper, or "none"
    ret,         \* the value the wrapper returned, or None
    fn_ret,      \* the value the view returned, or None
    sess0,       \* the session when the wrapper was entered
    sess_fn,     \* the session when the view was invoked
    written,     \* the keys the view has set or deleted
    nops,        \* the number of writes and deletes the view has done
    invoked,     \* how many times the wrapper has invoked the view in this call
    sess_ret,    \* the session when the view returned
    hooks        \* the hooks the wrapper has called in this call, in order

vars == <<self, dec, sess, pc, to_restore, exc, ret, fn_ret, sess0, sess_fn,
          written, nops, invoked, sess_ret, hooks>>

----------------------------------------------------------------------------
\* Python built-ins

Range(s) == { s[i] : i \in 1..Len(s) }

\* str.startswith
startswith(x, prefix) ==
    /\ Len(x) >= Len(prefix)
    /\ SubSeq(x, 1, Len(prefix)) = prefix

\* The empty dict.
EmptyDict == [k \in {} |-> None]

\* dict.get(k): None when k is absent.
Get(d, k) == IF k \in DOMAIN d THEN d[k] ELSE None

\* d[k] = v
SetItem(d, k, v) == [x \in DOMAIN d \cup {k} |-> IF x = k THEN v ELSE d[x]]

\* del d[k], for a key that is present.
DelItem(d, k) == [x \in DOMAIN d \ {k} |-> d[x]]

\* dict.update
update(d, e) == [x \in DOMAIN d \cup DOMAIN e |-> IF x \in DOMAIN e THEN e[x] ELSE d[x]]

\* The orders in which a dict's keys can be walked.
Orders(S) == { o \in [1..Cardinality(S) -> S] : Range(o) = S }

----------------------------------------------------------------------------
\* SessionConductor

\* v or [] for a list argument (None and [] both give []).
or_list(v) == IF Len(v) = 0 THEN << >> ELSE v

\* v or {} for a dict argument (None and {} both give {}).
or_dict(v) == IF DOMAIN v = {} THEN EmptyDict ELSE v

\* SessionConductor(save, destroy, skip, ensure): the attributes __init__ sets.
init(save_, destroy_, skip_, ensure_) ==
    [_save    |-> or_list(save_),
     _destroy |-> or_list(destroy_),
     _skip    |-> or_list(skip_),
     _ensure  |-> or_dict(ensure_)]

\* Each method gives the value it returns (ret) and the conductor as the
\* call leaves it (self).

\* A slip of save: self._save += xtra extends the profile's own list.
save_in_place(slf, xtra) ==
    LET r == slf._save \o or_list(xtra)
    IN  [ret |-> r, self |-> [slf EXCEPT !._save = r]]

\* save(xtra): self._save + (xtra or []), a new list.
save(slf, xtra) == [ret |-> slf._save \o or_list(xtra), self |-> slf]

\* destroy(xtra): self._destroy + (xtra or []), a new list.
destroy(slf, xtra) == [ret |-> slf._destroy \o or_list(xtra), self |-> slf]

\* A slip of skip: the profile's skip keys are left out.
skip_xtra_only(slf, xtra) == [ret |-> or_list(xtra), self |-> slf]

\* skip(xtra): self._skip + (xtra or []), a new list.
skip(slf, xtra) == [ret |-> slf._skip \o or_list(xtra), self |-> slf]

\* A slip of ensure: the overlay the other way round, the profile's entry winning.
ensure_profile_wins(slf, xtra) ==
    [ret |-> update(or_dict(xtra), slf._ensure), self |-> slf]

\* ensure(xtra): a copy of self._ensure, updated with xtra.
ensure(slf, xtra) ==
    LET ens == slf._ensure
    IN  [ret |-> update(ens, or_dict(xtra)), self |-> slf]

\* A slip of reset: the test for the '_' prefix is left out.
reset_no_prefix(session, keeps) ==
    [x \in { k \in DOMAIN session : k \in Range(keeps) } |-> session[x]]

\* reset(session, keeps): walks the list session.keys() and deletes every key
\* that neither starts with '_' nor is in keeps.  Gives the session left.
reset(session, keeps) ==
    LET gone == { x \in DOMAIN session :
                    ~startswith(x, <<"_">>) /\ x \notin Range(keeps) }
    IN  [x \in DOMAIN session \ gone |-> session[x]]

\* handle_missing_key(key, value): the default raises Exception.
handle_missing_key(key, value) == "Exception"

\* skipped_removed(session) and skipped_pre_restore(session): pass.  They
\* leave the session as it is.  No line of the wrapper calls either.
skipped_removed(session) == session
skipped_pre_restore(session) == session

\* d.keys(): the lists in which keys() can give the keys of the dict d.
keys(d) == Orders(DOMAIN d)

\* A slip of get_decorator: the ensure keys are left out of keeps.
get_decorator_keeps_no_ensure(slf, args, kwargs) ==
    LET s1 == save(slf, args)
        s2 == destroy(s1.self, kwargs.destroy)
        s3 == skip(s2.self, kwargs.skip)
        ensured_ == kwargs.ensure
        s4 == ensure(s3.self, ensured_)
    IN  { [ret  |-> [save    |-> s1.ret,
                     destroy |-> s2.ret,
                     skip    |-> s3.ret,
                     ensured |-> ensured_,
                     ensure  |-> ensure_,
                     keeps   |-> s1.ret \o s3.ret],
           self |-> s4.self] : ensure_ \in keys(s4.ret) }

\* get_decorator(*args, **kwargs): args are the extra save keys; kwargs holds
\* destroy, skip and ensure (kwargs.get gives [] or {} for one left out).
\* Gives, for each list .keys() can return, the closure of dec/wrapper (ret)
\* and the conductor afterwards (self).
get_decorator(slf, args, kwargs) ==
    LET s1 == save(slf, args)
        s2 == destroy(s1.self, kwargs.destroy)
        s3 == skip(s2.self, kwargs.skip)
        ensured_ == kwargs.ensure
        s4 == ensure(s3.self, ensured_)
    IN  { [ret  |-> [save    |-> s1.ret,
                     destroy |-> s2.ret,
                     skip    |-> s3.ret,
                     ensured |-> ensured_,
                     ensure  |-> ensure_,
                     keeps   |-> s1.ret \o s3.ret \o ensure_],
           self |-> s4.self] : ensure_ \in keys(s4.ret) }

----------------------------------------------------------------------------
\* wrapper(request): the steps before the view is invoked.  Each gives the
\* session it leaves and the exception it raised, or "none".

Ok(s) == [sess |-> s, exc |-> "none"]
Raise(s, e) == [sess |-> s, exc |-> e]

\* for x in ensure: if x not in sess: self.handle_missing_key(x, ensured[x])
\* ensured is the call's own mapping: ensured[x] raises KeyError for a key
\* that only the profile declares.
RECURSIVE ensure_loop(_, _, _)
ensure_loop(s, xs, ensured_) ==
    IF xs = << >> THEN Ok(s)
    ELSE LET x == Head(xs)
         IN  IF x \notin DOMAIN s
             THEN IF x \notin DOMAIN ensured_
                  THEN Raise(s, "KeyError")
                  ELSE Raise(s, handle_missing_key(x, ensured_[x]))
             ELSE ensure_loop(s, Tail(xs), ensured_)

\* for x in xs: del sess[x]; del raises KeyError for a key that is absent.
RECURSIVE del_loop(_, _)
del_loop(s, xs) ==
    IF xs = << >> THEN Ok(s)
    ELSE IF Head(xs) \notin DOMAIN s
         THEN Raise(s, "KeyError")
         ELSE del_loop(DelItem(s, Head(xs)), Tail(xs))

\* destroy or reset
cleanup(s, d) ==
    IF d.destroy # << >>
    THEN del_loop(s, d.destroy)
    ELSE Ok(reset(s, d.keeps))

\* to_restore = {x: request.session.get(x) for x in skip}
snapshot(s, skip_) == [x \in Range(skip_) |-> Get(s, x)]

\* for x in to_restore: del sess[x], in each order the dict to_restore can
\* be walked.
remove_skipped(s, snap) == { del_loop(s, walk) : walk \in keys(snap) }

\* A slip of the wrapper: destroy or reset first, the ensure loop after it.
wrapper_enter_cleanup_first(s, d) ==
    LET c == cleanup(s, d)
        e == ensure_loop(c.sess, d.ensure, d.ensured)
        snap == snapshot(e.sess, d.skip)
    IN  IF c.exc # "none"
        THEN { [sess |-> c.sess, exc |-> c.exc, to_restore |-> EmptyDict] }
        ELSE IF e.exc # "none"
        THEN { [sess |-> e.sess, exc |-> e.exc, to_restore |-> EmptyDict] }
        ELSE { [sess |-> r.sess, exc |-> r.exc, to_restore |-> snap] :
               r \in remove_skipped(e.sess, snap) }

\* The wrapper from its entry to the call of fn, or to the exception that
\* leaves it: the session, the exception, to_restore (the empty dict until
\* the wrapper sets it).
wrapper_enter(s, d) ==
    LET e == ensure_loop(s, d.ensure, d.ensured)
        c == cleanup(e.sess, d)
        snap == snapshot(c.sess, d.skip)
    IN  IF e.exc # "none"
        THEN { [sess |-> e.sess, exc |-> e.exc, to_restore |-> EmptyDict] }
        ELSE IF c.exc # "none"
        THEN { [sess |-> c.sess, exc |-> c.exc, to_restore |-> EmptyDict] }
        ELSE { [sess |-> r.sess, exc |-> r.exc, to_restore |-> snap] :
               r \in remove_skipped(c.sess, snap) }

\* A slip of the restore: the session is replaced by the snapshot.
restore_replaces(s, snap) == snap

\* A slip of the restore: the skipped keys are not written back.
restore_nothing(s, snap) == s

\* for x in to_restore: sess[x] = to_restore[x]
restore(s, snap) == update(s, snap)

----------------------------------------------------------------------------
\* The inputs

\* The declarations a constructor call or a decorator call passes: three
\* lists of keys and an ensure mapping.
Size(b) == Len(b.save) + Len(b.destroy) + Len(b.skip) + Cardinality(DOMAIN b.ensure)

\* The splits of at most n declarations over the four arguments.
Splits(n) == { l \in [1..4 -> 0..n] : l[1] + l[2] + l[3] + l[4] <= n }

DictsOfSize(m) ==
    UNION { [S -> Providers] : S \in { T \in SUBSET Keys : Cardinality(T) = m } }

\* The arguments of at most n declarations in all.
Bundles(n) ==
    UNION { { [save |-> s, destroy |-> d, skip |-> k, ensure |-> e] :
                s \in [1..l[1] -> Keys], d \in [1..l[2] -> Keys],
                k \in [1..l[3] -> Keys], e \in DictsOfSize(l[4]) } :
            l \in Splits(n) }

AllBundles == Bundles(MaxDecl)

\* The sessions requests arrive with: every key is absent or holds "v1"
\* (the wrapper never looks at a value; the view writes "v2").
Sessions == UNION { [S -> {"v1"}] : S \in SUBSET Keys }

\* What the view returns.
Responses == {"response"}

\* The closure before any decorator is built.
NoDec == [save |-> << >>, destroy |-> << >>, skip |-> << >>,
          ensured |-> EmptyDict, ensure |-> << >>, keeps |-> << >>]

\* The wrapper's locals and results outside a call.
Idle ==
    /\ to_restore' = EmptyDict
    /\ exc' = "none"
    /\ ret' = None
    /\ fn_ret' = None
    /\ sess0' = EmptyDict
    /\ sess_fn' = EmptyDict
    /\ written' = {}
    /\ nops' = 0
    /\ invoked' = 0
    /\ sess_ret' = EmptyDict
    /\ hooks' = << >>

----------------------------------------------------------------------------
\* The state machine

\* The number of declarations the profile holds.
Declared ==
    Len(self._save) + Len(self._destroy) + Len(self._skip) + Cardinality(DOMAIN self._ensure)

\* sc = SessionConductor(save, destroy, skip, ensure); no request yet.
Init ==
    /\ \E b \in AllBundles : self = init(b.save, b.destroy, b.skip, b.ensure)
    /\ dec = NoDec
    /\ sess = EmptyDict
    /\ pc = "init"
    /\ to_restore = EmptyDict
    /\ exc = "none"
    /\ ret = None
    /\ fn_ret = None
    /\ sess0 = EmptyDict
    /\ sess_fn = EmptyDict
    /\ written = {}
    /\ nops = 0
    /\ invoked = 0
    /\ sess_ret = EmptyDict
    /\ hooks = << >>

\* sc(*args, destroy=..., skip=..., ensure=...)(fn): a decorator is built and
\* wraps the view.
GetDecorator ==
    /\ pc \in {"init", "decorated"}
    /\ \E b \in AllBundles :
          /\ Declared + Size(b) <= MaxDecl
          /\ \E r \in get_decorator(self, b.save,
                        [destroy |-> b.destroy, skip |-> b.skip, ensure |-> b.ensure]) :
                /\ dec' = r.ret
                /\ self' = r.self
    /\ pc' = "decorated"
    /\ Idle
    /\ UNCHANGED sess

\* wrapper(request), lines 100-119, for a request with any session: ensure,
\* destroy or reset, remove the skipped keys, then call fn; or an exception
\* leaves the wrapper.  Lines 113-119 call no hook.
WrapperCall ==
    /\ pc \in {"decorated", "returned", "raised"}
    /\ \E s \in Sessions :
          /\ sess0' = s
          /\ \E r \in wrapper_enter(s, dec) :
                /\ sess' = r.sess
                /\ to_restore' = r.to_restore
                /\ exc' = r.exc
                /\ pc' = IF r.exc = "none" THEN "fn" ELSE "raised"
                /\ invoked' = IF r.exc = "none" THEN 1 ELSE 0
                /\ sess_fn' = IF r.exc = "none" THEN r.sess ELSE EmptyDict
    /\ ret' = None
    /\ fn_ret' = None
    /\ written' = {}
    /\ nops' = 0
    /\ sess_ret' = EmptyDict
    /\ hooks' = << >>
    /\ UNCHANGED <<self, dec>>

\* The view sets a session key.
FnSet ==
    /\ pc = "fn"
    /\ nops < MaxHandlerOps
    /\ \E k \in Keys :
          /\ sess' = SetItem(sess, k, "v2")
          /\ written' = written \cup {k}
    /\ nops' = nops + 1
    /\ UNCHANGED <<self, dec, pc, to_restore, exc, ret, fn_ret, sess0, sess_fn, invoked,
                   sess_ret, hooks>>

\* The view deletes a session key.
FnDel ==
    /\ pc = "fn"
    /\ nops < MaxHandlerOps
    /\ \E k \in DOMAIN sess :
          /\ sess' = DelItem(sess, k)
          /\ written' = written \cup {k}
    /\ nops' = nops + 1
    /\ UNCHANGED <<self, dec, pc, to_restore, exc, ret, fn_ret, sess0, sess_fn, invoked,
                   sess_ret, hooks>>

\* ret = fn(request, ...): the view returns.
FnReturn ==
    /\ pc = "fn"
    /\ fn_ret' \in Responses
    /\ sess_ret' = sess
    /\ pc' = "restore"
    /\ UNCHANGED <<self, dec, sess, to_restore, exc, ret, sess0, sess_fn, written, nops,
                   invoked, hooks>>

\* The view raises: line 119 is in no try block, the exception leaves the wrapper.
FnRaise ==
    /\ pc = "fn"
    /\ exc' = "ViewError"
    /\ pc' = "raised"
    /\ UNCHANGED <<self, dec, sess, to_restore, ret, fn_ret, sess0, sess_fn, written, nops,
                   invoked, sess_ret, hooks>>

\* wrapper(request), lines 121-124: reinstate the skipped keys, return ret.
\* No hook is called before the loop.
WrapperReturn ==
    /\ pc = "restore"
    /\ sess' = restore(sess, to_restore)
    /\ ret' = fn_ret
    /\ pc' = "returned"
    /\ UNCHANGED <<self, dec, to_restore, exc, fn_ret, sess0, sess_fn, written, nops,
                   invoked, sess_ret, hooks>>

Next ==
    \/ GetDecorator
    \/ WrapperCall
    \/ FnSet
    \/ FnDel
    \/ FnReturn
    \/ FnRaise
    \/ WrapperReturn

Spec == Init /\ [][Next]_vars

----------------------------------------------------------------------------
\* Properties

\* A call of the wrapper has begun (and may have ended).
InCall == pc \in {"fn", "restore", "returned", "raised"}

\* Every ensure key of the decorator was in the session the call began with.
EnsurePresent == Range(dec.ensure) \subseteq DOMAIN sess0

\* The skip keys in force: the profile's and those of the decorator's closure
\* (the profile's with the call's).
EffectiveSkip == Range(self._skip) \cup Range(dec.skip)

\* C1: after a call in which the view returned normally, every skip key that
\* was in the session before the call holds the value it had before the
\* call, whatever the view did to it.
C1_SkipKeysRestored ==
    pc = "returned" =>
        \A k \in EffectiveSkip :
            k \in DOMAIN sess0 => (k \in DOMAIN sess /\ sess[k] = sess0[k])

\* A normal return after the view wrote or deleted a skip key that the
\* session held before the call.
C1_Witness ==
    /\ pc = "returned"
    /\ \E k \in Range(dec.skip) : k \in DOMAIN sess0 /\ k \in written

\* C2: when the view raises, every key of the snapshot is back in the session
\* with its snapshotted value when the exception leaves the wrapper, and the
\* exception is the view's own.
C2_RestoredOnFailure ==
    (pc = "raised" /\ invoked = 1) =>
        /\ exc = "ViewError"
        /\ \A k \in DOMAIN to_restore :
              k \in DOMAIN sess /\ sess[k] = to_restore[k]

ResetOk(S, K) ==
    LET after == reset(S, K)
    IN  /\ \A x \in DOMAIN after : ~startswith(x, <<"_">>) => x \in Range(K)
        /\ \A x \in DOMAIN S :
              startswith(x, <<"_">>) => (x \in DOMAIN after /\ after[x] = S[x])
        /\ \A x \in DOMAIN after : x \in DOMAIN S /\ after[x] = S[x]

\* C4: reset(S, K) leaves no key without the '_' prefix that is outside K,
\* and leaves every '_' key of S with its value, in K or not.  S is the
\* session a call began with or the session as it is now; K is the
\* decorator's keeps.
C4_ResetKeepsAndPrefix ==
    InCall => (ResetOk(sess0, dec.keeps) /\ ResetOk(sess, dec.keeps))

\* The view is invoked after a reset that removed a plain key, kept a plain
\* key of keeps, and kept a '_' key that is not in keeps.
C4_Witness ==
    /\ pc = "fn"
    /\ nops = 0
    /\ dec.destroy = << >>
    /\ dec.skip = << >>
    /\ sess = reset(sess0, dec.keeps)
    /\ \E x \in DOMAIN sess0 : ~startswith(x, <<"_">>) /\ x \notin DOMAIN sess
    /\ \E x \in DOMAIN sess : ~startswith(x, <<"_">>) /\ x \in Range(dec.keeps)
    /\ \E x \in DOMAIN sess : startswith(x, <<"_">>) /\ x \notin Range(dec.keeps)

\* C5: in destroy mode the cleanup removes exactly the destroy keys: the
\* session it leaves is the session it was given without the destroy keys.
C5_DestroyRemovesExactly ==
    (InCall /\ EnsurePresent /\ dec.destroy # << >>) =>
        LET after == cleanup(sess0, dec).sess
        IN  /\ DOMAIN after = DOMAIN sess0 \ Range(dec.destroy)
            /\ \A x \in DOMAIN after : after[x] = sess0[x]

\* C6: in destroy mode a destroy key that is absent from the session raises
\* nothing: the cleanup ends without an exception, no destroy key is left,
\* and (with no skip keys to remove) the view is invoked.
C6_AbsentDestroyKeyIgnored ==
    (InCall /\ EnsurePresent /\ dec.destroy # << >>) =>
        LET c == cleanup(sess0, dec)
        IN  /\ c.exc = "none"
            /\ Range(dec.destroy) \cap DOMAIN c.sess = {}
            /\ (dec.skip = << >> => invoked = 1)

\* C7: a skip key that is absent from the session when the skipped keys are
\* removed raises nothing and is not in the snapshot: the view is invoked,
\* and after a normal return the key is absent unless the view wrote it.
C7_AbsentSkipKeyIgnored ==
    (InCall /\ EnsurePresent /\ cleanup(sess0, dec).exc = "none") =>
        \A k \in Range(dec.skip) :
            k \notin DOMAIN cleanup(sess0, dec).sess =>
                /\ invoked = 1
                /\ k \notin DOMAIN to_restore
                /\ (pc = "returned" /\ k \notin written => k \notin DOMAIN sess)

\* C8: when the view is invoked no skip key of the decorator (the profile's
\* and the call's) is in the session, and while the view runs a skip key is
\* in the session only if the view wrote it.
C8_SkipKeysHidden ==
    /\ invoked = 1 => EffectiveSkip \cap DOMAIN sess_fn = {}
    /\ pc = "fn" => \A k \in EffectiveSkip : k \in DOMAIN sess => k \in written

\* The view is invoked with a skip key of the profile and a skip key of the
\* call, both in the session before the call.
C8_Witness ==
    /\ pc = "fn"
    /\ nops = 0
    /\ self._skip # << >>
    /\ Len(dec.skip) > Len(self._skip)
    /\ Cardinality(Range(dec.skip)) = Len(dec.skip)
    /\ Range(dec.skip) \subseteq DOMAIN sess0

\* m is prof overlaid by xtra.
Overlay(m, prof, xtra) ==
    /\ DOMAIN m = DOMAIN prof \cup DOMAIN xtra
    /\ \A k \in DOMAIN xtra : m[k] = xtra[k]
    /\ \A k \in DOMAIN prof \ DOMAIN xtra : m[k] = prof[k]

\* The example: {a: 1, b: 2} overlaid by {b: 3, c: 4} is {a: 1, b: 3, c: 4}.
C9_ExampleProfile == [k \in { <<"a">>, <<"b">> } |-> IF k = <<"a">> THEN "1" ELSE "2"]
C9_ExampleCall == [k \in { <<"b">>, <<"c">> } |-> IF k = <<"b">> THEN "3" ELSE "4"]
C9_ExampleMerged ==
    [k \in { <<"a">>, <<"b">>, <<"c">> } |->
        IF k = <<"a">> THEN "1" ELSE IF k = <<"b">> THEN "3" ELSE "4"]

\* C9: ensure(xtra) is the profile's mapping overlaid by xtra: the keys of
\* both, xtra's provider for a key of xtra, the profile's for the others;
\* the decorator's ensure keys are the keys of that mapping; the example
\* gives {a: 1, b: 3, c: 4}.
C9_EnsureOverlay ==
    /\ Overlay(ensure(self, dec.ensured).ret, self._ensure, dec.ensured)
    /\ pc # "init" => Range(dec.ensure) = DOMAIN self._ensure \cup DOMAIN dec.ensured
    /\ ensure([self EXCEPT !._ensure = C9_ExampleProfile], C9_ExampleCall).ret
          = C9_ExampleMerged

\* A decorator whose call-level ensure gives a key of the profile's ensure
\* another provider.
C9_Witness ==
    /\ pc = "decorated"
    /\ \E k \in DOMAIN self._ensure \cap DOMAIN dec.ensured :
          self._ensure[k] # dec.ensured[k]

\* C10: no step changes the profile: not building a decorator with
\* overrides, not a call of the wrapper, not the view.
C10_ProfileNeverMutated == [][self' = self]_vars

\* A call has ended under a decorator built with call-level save keys.
C10_Witness ==
    /\ pc \in {"returned", "raised"}
    /\ Len(dec.save) > Len(self._save)

\* The ensure mapping in force: the profile's overlaid by the call's.
EffectiveEnsure == update(self._ensure, dec.ensured)

\* The ensure keys that were missing from the session the call began with.
MissingKeys == DOMAIN EffectiveEnsure \ DOMAIN sess0

\* C11: in a call the view is invoked once, after the ensure, cleanup and
\* skip-removal steps; a call that returns normally returns the view's
\* result; a call that never invoked the view failed in the ensure step,
\* that is, an ensure key was missing.
C11_InvokedOnceResultReturned ==
    /\ invoked <= 1
    /\ pc \in {"fn", "restore", "returned"} => invoked = 1
    /\ pc = "returned" => (ret = fn_ret /\ ret \in Responses)
    /\ (pc = "raised" /\ invoked = 0) => MissingKeys # {}

\* C12: when the view is invoked skipped_removed has been called, and when
\* the call has returned skipped_pre_restore has been called after it.
C12_HooksCalled ==
    /\ pc \in {"fn", "restore"} => hooks \in { <<"skipped_removed">>,
                                               <<"skipped_removed", "skipped_pre_restore">> }
    /\ pc = "returned" => hooks = <<"skipped_removed", "skipped_pre_restore">>

\* C13: a call that begins with an ensure key missing, declared by the
\* profile or by the call, ends with the exception of handle_missing_key and
\* with no other.
C13_MissingKeyError ==
    (InCall /\ MissingKeys # {}) => (pc = "raised" /\ exc = "Exception")

\* C14: when every missing ensure key is declared with a callable, the
\* callable supplies the value: the call does not fail in the ensure step,
\* and (in reset mode with no skip keys) the view is invoked with the keys
\* in the session.
C14_CallableSuppliesValue ==
    (/\ InCall
     /\ MissingKeys # {}
     /\ \A x \in MissingKeys : EffectiveEnsure[x] = "fn"
     /\ dec.destroy = << >>
     /\ dec.skip = << >>) =>
        /\ invoked = 1
        /\ MissingKeys \subseteq DOMAIN sess_fn

\* The keep set: the save keys, the skip keys and the ensure keys, each the
\* profile's with the call's.
KeepSet ==
    Range(self._save) \cup Range(dec.save) \cup EffectiveSkip \cup DOMAIN EffectiveEnsure

\* S without the keys outside Ks.
Restrict(S, Ks) == [x \in DOMAIN S \cap Ks |-> S[x]]

\* C15: in reset mode every key of the keep set that the session held before
\* the call is left by the cleanup with its value; the view sees the save
\* and ensure keys that are not skip keys with their values; and after the
\* normal return of a view that wrote nothing the session is the session
\* before the call, restricted to the '_' keys and the keep set.
C15_ResetKeepsKeepSet ==
    (InCall /\ dec.destroy = << >> /\ MissingKeys = {}) =>
        /\ \A k \in KeepSet \cap DOMAIN sess0 :
              LET c == cleanup(sess0, dec)
              IN  c.exc = "none" /\ k \in DOMAIN c.sess /\ c.sess[k] = sess0[k]
        /\ invoked = 1 =>
              \A k \in (KeepSet \ EffectiveSkip) \cap DOMAIN sess0 :
                  k \in DOMAIN sess_fn /\ sess_fn[k] = sess0[k]
        /\ (pc = "returned" /\ written = {}) =>
              sess = Restrict(sess0, KeepSet \cup { x \in Keys : startswith(x, <<"_">>) })

\* A normal return in reset mode of a view that wrote nothing: a plain key
\* outside the keep set was removed, a skip key was hidden and is back, a
\* save or ensure key was kept.
C15_Witness ==
    /\ pc = "returned"
    /\ written = {}
    /\ dec.destroy = << >>
    /\ \E x \in DOMAIN sess0 : x \notin DOMAIN sess
    /\ \E x \in EffectiveSkip : x \in DOMAIN sess /\ x \notin DOMAIN sess_fn
    /\ \E x \in KeepSet \ EffectiveSkip : ~startswith(x, <<"_">>) /\ x \in DOMAIN sess

\* C16: the merged lists hold no key twice, so a key declared by the profile
\* and by the call counts once: in destroy mode, with every destroy key in
\* the session (and no skip keys), the keys are removed without an exception
\* and the view is invoked.
C16_MergeIsUnion ==
    /\ pc # "init" =>
          /\ Cardinality(Range(dec.save)) = Len(dec.save)
          /\ Cardinality(Range(dec.destroy)) = Len(dec.destroy)
          /\ Cardinality(Range(dec.skip)) = Len(dec.skip)
    /\ (/\ InCall
        /\ MissingKeys = {}
        /\ dec.destroy # << >>
        /\ Range(dec.destroy) \subseteq DOMAIN sess0
        /\ dec.skip = << >>) =>
          /\ invoked = 1
          /\ DOMAIN sess_fn = DOMAIN sess0 \ Range(dec.destroy)

\* C17: a key in destroy and in skip that the session held before the call
\* is removed by the cleanup and then passed over by the skip removal: the
\* view is invoked, the key is not in the snapshot, and after a normal
\* return the key is absent unless the view wrote it.
C17_DestroyedSkipKeyStaysGone ==
    (InCall /\ MissingKeys = {} /\ cleanup(sess0, dec).exc = "none") =>
        \A k \in Range(dec.destroy) \cap Range(dec.skip) \cap DOMAIN sess0 :
            /\ invoked = 1
            /\ k \notin DOMAIN to_restore
            /\ (pc = "returned" /\ k \notin written) => k \notin DOMAIN sess

\* C18: after a normal return every key outside the snapshot is as the view
\* left it: absent if it was absent when the view returned, and with the
\* same value otherwise.
C18_RestoreWritesOnlySnapshot ==
    pc = "returned" =>
        \A k \in Keys \ DOMAIN to_restore :
            /\ k \in DOMAIN sess <=> k \in DOMAIN sess_ret
            /\ k \in DOMAIN sess => sess[k] = sess_ret[k]

\* A normal return with a snapshot, after the view wrote or deleted a key
\* outside the snapshot.
C18_Witness ==
    /\ pc = "returned"
    /\ DOMAIN to_restore # {}
    /\ written \ DOMAIN to_restore # {}

\* C19: after a call that returned normally from a view that wrote nothing,
\* a second call on the session the first left, with the ensure keys in it,
\* invokes the view and, the view writing nothing again, leaves the session
\* as the first call left it.
C19_SecondCallSameResult ==
    [][(/\ pc = "returned"
        /\ written = {}
        /\ DOMAIN EffectiveEnsure \subseteq DOMAIN sess
        /\ sess0' = sess) =>
          (pc' = "fn" /\ restore(sess', to_restore') = sess)]_vars

====
